---- MODULE Spec2Model ----
(***************************************************************************)
(* Model of the FinMaster client (src/unnamed/part_000): the symbol        *)
(* normalizer, the fetch-with-timeout-and-retry wrapper, the quote client, *)
(* the connectivity test and the analysis run.                             *)
(*                                                                         *)
(* A JavaScript string is a sequence of one-character strings.             *)
(***************************************************************************)
EXTENDS Integers, Sequences, FiniteSets, TLC

VARIABLES
    normCall,       \* one call of cleanAndValidateSymbols: input, done, threw, result
    reportCall,     \* one call of the report generator: symbols, priceMap, done, report
    proxyCall,      \* one request to a proxy handler: request, position, response
    apiConfig,      \* useState: baseUrl, timeout, corsMode, retryAttempts
    closureConfig,  \* the apiConfig read by the callbacks memoized with [] deps
    calls,          \* per slot: the fetchWithTimeout call in progress
    quotes,         \* per quote slot: the Quote fetchLatestPrice resolved to
    quoteSymbol,    \* per quote slot: the symbol fetchLatestPrice was called with
    shareList,      \* useState: the text of the symbol input
    analysis,       \* useState: the report shown
    isAnalyzing,    \* useState
    error,          \* useState: the user-facing error
    apiStatus,      \* useState: status of the last connectivity test
    isApiWorking,   \* useState
    run,            \* the analyzeShares call in progress: its position and closure
    tests,          \* per test slot: the position of a testApiConnection call
    retestTimers,   \* pending setTimeout(testApiConnection, 500) timers
    configEdits     \* configuration changes made so far

normVars  == <<normCall, reportCall, proxyCall>>
fetchVars == <<apiConfig, closureConfig, calls, quotes, quoteSymbol>>
uiVars    == <<shareList, analysis, isAnalyzing, error, apiStatus, isApiWorking,
               run, tests, retestTimers, configEdits>>
vars      == <<normCall, reportCall, proxyCall, apiConfig, closureConfig, calls, quotes, quoteSymbol,
               shareList, analysis, isAnalyzing, error, apiStatus, isApiWorking,
               run, tests, retestTimers, configEdits>>

-----------------------------------------------------------------------------
(* Characters and the string methods the normalizer uses *)

LowerChars == <<"a","b","c","d","e","f","g","h","i","j","k","l","m",
                "n","o","p","q","r","s","t","u","v","w","x","y","z">>
UpperChars == <<"A","B","C","D","E","F","G","H","I","J","K","L","M",
                "N","O","P","Q","R","S","T","U","V","W","X","Y","Z">>
DigitChars == {"0","1","2","3","4","5","6","7","8","9"}
QuoteChars == {"'", "\""}
SpaceChars == {" ", "\t", "\n"}

Range(s) == {s[i] : i \in DOMAIN s}
LowerSet == Range(LowerChars)
UpperSet == Range(UpperChars)

\* String.prototype.trim
RECURSIVE TrimLeft(_)
TrimLeft(s) ==
    IF s # <<>> /\ Head(s) \in SpaceChars THEN TrimLeft(Tail(s)) ELSE s
RECURSIVE TrimRight(_)
TrimRight(s) ==
    IF s # <<>> /\ s[Len(s)] \in SpaceChars
    THEN TrimRight(SubSeq(s, 1, Len(s) - 1)) ELSE s
Trim(s) == TrimRight(TrimLeft(s))

\* .replace(/['"]/g, '')
RemoveQuotesKeep(c) == c \notin QuoteChars
RemoveQuotes(s) == SelectSeq(s, RemoveQuotesKeep)

\* (mutation: nothing is stripped, so a piece with punctuation fails validation)
StripNothing(s) == s

\* .replace(/[^A-Za-z0-9:.]/g, '')
StripInvalidKeep(c) == c \in LowerSet \cup UpperSet \cup DigitChars \cup {":", "."}
StripInvalid(s) == SelectSeq(s, StripInvalidKeep)

\* String.prototype.toUpperCase on the characters that survive the strip
UpperOf(c) ==
    IF c \in LowerSet
    THEN UpperChars[CHOOSE i \in DOMAIN LowerChars : LowerChars[i] = c]
    ELSE c
ToUpperCase(s) == [i \in DOMAIN s |-> UpperOf(s[i])]

\* /^[A-Z]{2,6}$/.test
symbolPattern(s) ==
    /\ Len(s) >= 2
    /\ Len(s) <= 6
    /\ \A i \in DOMAIN s : s[i] \in UpperSet

\* /^[A-Z]{2,6}:[A-Z]{2,6}$/.test
marketSymbolPattern(s) ==
    \E k \in DOMAIN s :
        /\ s[k] = ":"
        /\ symbolPattern(SubSeq(s, 1, k - 1))
        /\ symbolPattern(SubSeq(s, k + 1, Len(s)))

\* String.prototype.split(',')
RECURSIVE SplitFrom(_, _, _)
SplitFrom(s, i, piece) ==
    IF i > Len(s) THEN <<piece>>
    ELSE IF s[i] = "," THEN <<piece>> \o SplitFrom(s, i + 1, <<>>)
    ELSE SplitFrom(s, i + 1, Append(piece, s[i]))
SplitComma(s) == SplitFrom(s, 1, <<>>)

\* (mutation: the list is returned without the Set round trip)
UniqueKeepsDuplicates(seq) == seq

\* [...new Set(symbols)]: first occurrences, in order
RECURSIVE Unique(_)
Unique(seq) ==
    IF seq = <<>> THEN <<>>
    ELSE LET front == Unique(SubSeq(seq, 1, Len(seq) - 1))
             last  == seq[Len(seq)]
         IN  IF last \in Range(front) THEN front ELSE Append(front, last)

-----------------------------------------------------------------------------
(* cleanAndValidateSymbols *)

\* A JavaScript value handed to the normalizer: a string, or something else.
StringValue(chars) == [type |-> "string", truthy |-> chars # <<>>, chars |-> chars]
OtherValue(t, b)   == [type |-> t, truthy |-> b, chars |-> <<>>]

\* the per-piece callback of .map: the cleaned symbol, or null
NullSymbol == <<"null">>
CleanPiece(piece) ==
    IF piece = <<>> THEN NullSymbol
    ELSE LET cleaned == ToUpperCase(StripInvalid(RemoveQuotes(Trim(piece))))
         IN  IF marketSymbolPattern(cleaned) \/ symbolPattern(cleaned)
             THEN cleaned ELSE NullSymbol

NotNull(x) == x # NullSymbol
MapClean(pieces) == [i \in DOMAIN pieces |-> CleanPiece(pieces[i])]

\* the guard of line 163
RejectsInput(v) == ~v.truthy \/ v.type # "string"

\* result of the call: threw is TRUE when a string method is applied to a non-string
cleanAndValidateSymbols(v) ==
    IF RejectsInput(v) THEN [threw |-> FALSE, list |-> <<>>]
    ELSE IF v.type # "string" THEN [threw |-> TRUE, list |-> <<>>]
    ELSE [threw |-> FALSE,
          list  |-> Unique(SelectSeq(MapClean(SplitComma(v.chars)), NotNull))]

-----------------------------------------------------------------------------
(* The normalizer on bounded inputs *)

MaxLen == 6
NormAlphabet == {"a", "B", ",", "!", ":"}

RECURSIVE SeqsUpTo(_, _)
SeqsUpTo(S, n) ==
    IF n = 0 THEN {<<>>}
    ELSE LET shorter == SeqsUpTo(S, n - 1)
         IN  shorter \cup {Append(s, c) : s \in {x \in shorter : Len(x) = n - 1}, c \in S}

\* " aapl , msft, bad!!, AAPL"
SpecExampleInput ==
    <<" ","a","a","p","l"," ",","," ","m","s","f","t",","," ","b","a","d","!","!",
      ","," ","A","A","P","L">>

ConcreteInputs ==
    { SpecExampleInput,
      <<" ", " ">>,
      <<"'","a","b","'",",","\"","A","B","\"">>,
      <<"a","1",",","b",".","c",",","j","s","e",":","s","t","x">>,
      <<"a","b","c","d","e","f","g",",","a","b","c","d","e","f">> }

NormInputs ==
    {StringValue(s) : s \in SeqsUpTo(NormAlphabet, MaxLen) \cup ConcreteInputs}
    \cup {OtherValue(t, b) : t \in {"number", "boolean", "object"}, b \in BOOLEAN}
    \cup {OtherValue("undefined", FALSE), OtherValue("null", FALSE)}

-----------------------------------------------------------------------------
(* Configuration *)

DefaultTimeout       == 15000
DefaultRetryAttempts == 2
BackoffUnit          == 1000
ShortTimeout         == 5000

DefaultBaseUrl == "https://finmaster-api.vercel.app"
DefaultConfig ==
    [baseUrl |-> DefaultBaseUrl, timeout |-> DefaultTimeout,
     corsMode |-> "cors", retryAttempts |-> DefaultRetryAttempts]

\* API_BASE_URL and API_TIMEOUT as the memoized callbacks see them
API_BASE_URL == closureConfig.baseUrl
API_TIMEOUT  == closureConfig.timeout

-----------------------------------------------------------------------------
(* fetchWithTimeout: one AbortController and one timer per call, a retry loop *)

QuoteSlots == {"q1", "q2"}
TestSlots  == {"bg", "re"}
Slots      == QuoteSlots \cup TestSlots

\* how long the endpoint takes when it answers or fails (ms after the attempt began)
FastDelay == 200
SlowDelay == 14500
ReplyDelays == {FastDelay, SlowDelay}

TimeoutMessage == "Request timeout - API took too long to respond"
NetworkMessage == "Network Error - Check CORS settings or API availability"
OtherFetchMessage == "Load failed"

\* what fetch() rejects with: an abort, or a network failure whose message the
\* browser words as "Failed to fetch" or otherwise
NetworkErrors == {"FailedToFetch", "OtherTypeError"}

IdleCall ==
    [pc |-> "idle", attempt |-> 0, t |-> 0, aborted |-> FALSE, waits |-> <<>>,
     attempts |-> 0, outcome |-> "none", silent |-> TRUE,
     url |-> [path |-> "none", symbol |-> <<>>], baseUrl |-> "none",
     mode |-> "none", timeoutMs |-> 0, retryAttempts |-> 0]

\* lines 45-51: controller and timer created, first attempt issued; the request
\* is built from the apiConfig cfg of the render that defined the function
BeginCallWith(cfg, path) ==
    [pc |-> "fetch", attempt |-> 0, t |-> 0, aborted |-> FALSE, waits |-> <<>>,
     attempts |-> 1, outcome |-> "none", silent |-> TRUE, url |-> path,
     baseUrl |-> cfg.baseUrl, mode |-> cfg.corsMode, timeoutMs |-> cfg.timeout,
     retryAttempts |-> cfg.retryAttempts]

\* testApiConnection and fetchLatestPrice are memoized with [] deps (lines 160,
\* 257): the fetchWithTimeout they call is the one of the first render
BeginCall(path) == BeginCallWith(closureConfig, path)

\* (mutation: the AbortError branch of line 67 is missing)
ThrownMessageNoAbortCase(e) ==
    IF e = "FailedToFetch" THEN NetworkMessage ELSE OtherFetchMessage

\* lines 67-73: the error thrown after the last attempt
ThrownMessage(e) ==
    IF e = "AbortError" THEN TimeoutMessage
    ELSE IF e = "FailedToFetch" THEN NetworkMessage
    ELSE OtherFetchMessage

\* (mutation: the first failure is taken for the last)
IsLastAttemptAlways(c) == TRUE

\* line 65
IsLastAttempt(c) == c.attempt = c.retryAttempts - 1

\* (mutation: a constant wait instead of a linear one)
BackoffConstant(attempt) == BackoffUnit

\* line 76
Backoff(attempt) == BackoffUnit * (attempt + 1)

\* lines 64-77: the catch block, entered at time now with error e
OnReject(c, e, now) ==
    IF IsLastAttempt(c)
    THEN [c EXCEPT !.pc = "threw", !.t = now, !.outcome = ThrownMessage(e),
                   !.silent = @ /\ e = "AbortError"]
    ELSE [c EXCEPT !.pc = "backoff", !.t = now,
                   !.waits = Append(@, Backoff(c.attempt)),
                   !.silent = @ /\ e = "AbortError"]

\* lines 62-63: a response arrived at time now; the timer is cleared
OnResponse(c, kind, now) ==
    [c EXCEPT !.pc = "returned", !.t = now, !.outcome = kind, !.silent = FALSE]

\* line 47: the timer fires while attempt is in flight, the fetch rejects
OnTimer(c) ==
    OnReject([c EXCEPT !.aborted = TRUE], "AbortError", c.timeoutMs)

\* (mutation: a controller and a timer of its own for every attempt)
OnWaitEndFreshTimer(c) ==
    LET wake == c.t + c.waits[Len(c.waits)]
    IN  [c EXCEPT !.pc = "fetch", !.t = wake, !.attempt = @ + 1,
                  !.attempts = @ + 1, !.timeoutMs = wake + @]

\* line 76 resolves, line 49 loops: the next attempt starts; the timer has
\* fired meanwhile when the wait ends at or after the timeout
OnWaitEnd(c) ==
    LET wake == c.t + c.waits[Len(c.waits)]
    IN  [c EXCEPT !.pc = "fetch", !.t = wake, !.attempt = @ + 1,
                  !.attempts = @ + 1,
                  !.aborted = @ \/ wake >= c.timeoutMs]

InFlight(c)  == c.pc = "fetch" /\ ~c.aborted
CanArrive(c, d) == InFlight(c) /\ c.t + d < c.timeoutMs

-----------------------------------------------------------------------------
(* fetchLatestPrice *)

\* the promise fetchLatestPrice returned: pending, resolved to a Quote, or rejected
NoQuote == [symbol |-> <<>>, isSimulated |-> FALSE, errorDetails |-> "none",
            state |-> "pending"]

\* what the proxy sends back: 200 with a current price, 200 without one, 200
\* with a body that is not JSON, or an error status
StockReplies == {"okPrice", "okNoPrice", "okBadJson", "httpError"}

HttpErrorMessage  == "HTTP 500: Internal Server Error. {error body}"
NoPriceMessage    == "Invalid API response structure - missing current price"
BadJsonMessage    == "Unexpected token < in JSON at position 0"

\* lines 194-204: what the body of the try block throws for a reply, "" if nothing
ReplyFailure(kind) ==
    IF kind = "httpError" THEN HttpErrorMessage
    ELSE IF kind = "okBadJson" THEN BadJsonMessage
    ELSE IF kind = "okNoPrice" THEN NoPriceMessage
    ELSE ""

\* lines 211-224
LiveQuote(symbol) ==
    [symbol |-> symbol, isSimulated |-> FALSE, errorDetails |-> "none",
     state |-> "resolved"]

\* (mutation: the error is propagated to the caller instead of absorbed)
Rethrow(symbol, message) ==
    [symbol |-> symbol, isSimulated |-> FALSE, errorDetails |-> message,
     state |-> "rejected"]

\* lines 226-255: the catch block returns a synthetic Quote
SyntheticQuote(symbol, message) ==
    [symbol |-> symbol, isSimulated |-> TRUE, errorDetails |-> message,
     state |-> "resolved"]

\* the Quote a finished fetchWithTimeout call leads to
QuoteOf(symbol, c) ==
    IF c.pc = "returned" /\ ReplyFailure(c.outcome) = ""
    THEN LiveQuote(symbol)
    ELSE SyntheticQuote(symbol,
             IF c.pc = "returned" THEN ReplyFailure(c.outcome) ELSE c.outcome)

\* a step of the call in quote slot i, and the Quote when it ends the call
QuoteStep(i, c) ==
    /\ calls' = [calls EXCEPT ![i] = c]
    /\ quotes' = [quotes EXCEPT ![i] =
                    IF c.pc \in {"returned", "threw"}
                    THEN QuoteOf(quoteSymbol[i], c) ELSE @]
    /\ UNCHANGED <<normCall, reportCall, proxyCall, apiConfig, closureConfig, quoteSymbol>>
    /\ UNCHANGED uiVars

QuoteReply(i, kinds, delays) ==
    \E kind \in kinds, d \in delays :
        /\ CanArrive(calls[i], d)
        /\ QuoteStep(i, OnResponse(calls[i], kind, calls[i].t + d))

QuoteFetchFails(i, errors, delays) ==
    \E e \in errors, d \in delays :
        /\ CanArrive(calls[i], d)
        /\ QuoteStep(i, OnReject(calls[i], e, calls[i].t + d))

\* (mutation: one AbortController shared by the calls of a fan-out)
AbortScopeShared(i) == QuoteSlots

\* line 46: the controller is created inside the call, so the timer of the call
\* in slot i aborts that call only
AbortScope(i) == {i}

QuoteTimerFires(i) ==
    /\ InFlight(calls[i])
    /\ calls' = [s \in Slots |->
                   IF s = i THEN OnTimer(calls[i])
                   ELSE IF s \in AbortScope(i) /\ calls[s].pc \in {"fetch", "backoff"}
                   THEN [calls[s] EXCEPT !.aborted = TRUE]
                   ELSE calls[s]]
    /\ quotes' = [quotes EXCEPT ![i] =
                    IF OnTimer(calls[i]).pc = "threw"
                    THEN QuoteOf(quoteSymbol[i], OnTimer(calls[i])) ELSE @]
    /\ UNCHANGED <<normCall, reportCall, proxyCall, apiConfig, closureConfig, quoteSymbol>>
    /\ UNCHANGED uiVars

QuoteAbortedFetch(i) ==
    /\ calls[i].pc = "fetch"
    /\ calls[i].aborted
    /\ QuoteStep(i, OnReject(calls[i], "AbortError", calls[i].t))

QuoteWaitEnds(i) ==
    /\ calls[i].pc = "backoff"
    /\ QuoteStep(i, OnWaitEnd(calls[i]))

-----------------------------------------------------------------------------
(* The Quote Proxy handlers: src/unnamed/part_001 and the two handlers of   *)
(* src/api/stock/[symbol].js                                                *)

Part001      == "part_001"
SymbolFirst  == "[symbol].js first handler"
SymbolSecond == "[symbol].js second handler"
Handlers == {Part001, SymbolFirst, SymbolSecond}

\* a JavaScript number that may be undefined
Undefined == [defined |-> FALSE, num |-> 0]
Num(n) == [defined |-> TRUE, num |-> n]
Truthy(v) == v.defined /\ v.num # 0
\* a || b
OrElse(a, b) == IF Truthy(a) THEN a ELSE b

\* String.prototype.includes and String.prototype.replace with a string pattern
OccursAt(s, sub, i) ==
    /\ i + Len(sub) - 1 <= Len(s)
    /\ SubSeq(s, i, i + Len(sub) - 1) = sub
Includes(s, sub) == \E i \in 1..Len(s) : OccursAt(s, sub, i)
ReplaceFirst(s, sub, by) ==
    IF ~Includes(s, sub) THEN s
    ELSE LET i == CHOOSE k \in 1..Len(s) :
                     /\ OccursAt(s, sub, k)
                     /\ \A j \in 1..(k - 1) : ~OccursAt(s, sub, j)
         IN  SubSeq(s, 1, i - 1) \o by \o SubSeq(s, i + Len(sub), Len(s))

AllUpper(s) == \A i \in 1..Len(s) : s[i] \in UpperSet

\* part_001 line 39: /^[A-Z]{1,6}(\.[A-Z]{1,3})?$/
proxySymbolPattern(s) ==
    \/ Len(s) \in 1..6 /\ AllUpper(s)
    \/ \E k \in 1..6 :
          /\ Len(s) \in (k + 2)..(k + 4)
          /\ AllUpper(SubSeq(s, 1, k))
          /\ s[k + 1] = "."
          /\ AllUpper(SubSeq(s, k + 2, Len(s)))

\* the fixed upstream timeout of part_001 line 57 and [symbol].js line 133;
\* the first handler of [symbol].js sets no timer
ProxyTimeout == 10000
TimeoutOf(h) == IF h = SymbolFirst THEN 0 ELSE ProxyTimeout

\* (mutation: the header is set on the success path only)
AllowOriginOnSuccess(h, status) == IF status = 200 THEN "*" ELSE "none"

\* line 6 of each handler: set before any branch, so whatever the status
AllowOrigin(h, status) == "*"

NoBody == [kind |-> "none", currentPrice |-> Undefined, previousClose |-> Undefined,
           dayChange |-> Undefined, dayChangePercent |-> Undefined]
EmptyBody == [NoBody EXCEPT !.kind = "empty"]
ErrorBody == [NoBody EXCEPT !.kind = "error"]
\* [symbol].js lines 62-71: the upstream document with a metadata member
RawBody   == [NoBody EXCEPT !.kind = "raw"]

\* a response of handler h: res.status(status) and .end() or .json(body)
Respond(h, status, body) ==
    [sent |-> TRUE, status |-> status, body |-> body,
     allowOrigin |-> AllowOrigin(h, status)]
NoResponse == [sent |-> FALSE, status |-> 0, body |-> NoBody, allowOrigin |-> "none"]

\* what a handler does with a request before it awaits the upstream: a
\* response, or the symbol it asks the upstream for
Answer(response) == [forward |-> FALSE, response |-> response, cleanSymbol |-> <<>>]
Forward(cleanSymbol) ==
    [forward |-> TRUE, response |-> NoResponse, cleanSymbol |-> cleanSymbol]

\* part_001 lines 12-47
BeforeFetchPart001(method, symbol) ==
    IF method = "OPTIONS" THEN Answer(Respond(Part001, 200, EmptyBody))
    ELSE IF method # "GET" THEN Answer(Respond(Part001, 405, ErrorBody))
    ELSE IF ~symbol.truthy \/ symbol.type # "string"
    THEN Answer(Respond(Part001, 400, ErrorBody))
    ELSE IF ~proxySymbolPattern(ToUpperCase(Trim(symbol.chars)))
    THEN Answer(Respond(Part001, 400, ErrorBody))
    ELSE Forward(ToUpperCase(Trim(symbol.chars)))

\* [symbol].js lines 11-34: no method check; a symbol that is not a string
\* makes symbol.toUpperCase() throw inside the try block
BeforeFetchFirst(method, symbol) ==
    IF method = "OPTIONS" THEN Answer(Respond(SymbolFirst, 200, EmptyBody))
    ELSE IF ~symbol.truthy THEN Answer(Respond(SymbolFirst, 400, ErrorBody))
    ELSE IF symbol.type # "string" THEN Answer(Respond(SymbolFirst, 500, ErrorBody))
    ELSE IF Includes(symbol.chars, <<"J","S","E",":">>)
    THEN Forward(ReplaceFirst(symbol.chars, <<"J","S","E",":">>, <<>>)
                    \o <<".","J","O">>)
    ELSE Forward(ToUpperCase(symbol.chars))

\* [symbol].js lines 100-129
BeforeFetchSecond(method, symbol) ==
    IF method = "OPTIONS" THEN Answer(Respond(SymbolSecond, 200, EmptyBody))
    ELSE IF method # "GET" THEN Answer(Respond(SymbolSecond, 405, ErrorBody))
    ELSE IF ~symbol.truthy \/ symbol.type # "string" \/ Trim(symbol.chars) = <<>>
    THEN Answer(Respond(SymbolSecond, 400, ErrorBody))
    ELSE Forward(Trim(symbol.chars))

BeforeFetch(h, method, symbol) ==
    IF h = Part001 THEN BeforeFetchPart001(method, symbol)
    ELSE IF h = SymbolFirst THEN BeforeFetchFirst(method, symbol)
    ELSE BeforeFetchSecond(method, symbol)

\* what the upstream sends: a status and a document. chart is "absent" (no
\* chart member), "null" (result null), "empty" (result []) or "result"
UpstreamReply(status, json, chart, meta, indicators, price, prev, chartPrev) ==
    [status |-> status, json |-> json, chart |-> chart, meta |-> meta,
     indicators |-> indicators, regularMarketPrice |-> price,
     previousClose |-> prev, chartPreviousClose |-> chartPrev]

\* what a failed await leaves in the catch block
FetchFailed  == "fetch failed"
Aborted      == "AbortError"
UpstreamHttpError == "Yahoo Finance API error"
JsonError    == "Unexpected token"
\* error.message.includes('fetch'), over the messages above
MentionsFetch(message) == message = FetchFailed

\* part_001 lines 129-151, [symbol].js lines 197-218
CatchFlattened(h, name, message) ==
    IF name = Aborted THEN Respond(h, 408, ErrorBody)
    ELSE IF MentionsFetch(message) THEN Respond(h, 503, ErrorBody)
    ELSE Respond(h, 500, ErrorBody)

\* [symbol].js lines 75-88
CatchFirst(name, message) == Respond(SymbolFirst, 500, ErrorBody)

Catch(h, name, message) ==
    IF h = SymbolFirst THEN CatchFirst(name, message) ELSE CatchFlattened(h, name, message)

\* part_001 lines 99-120, [symbol].js lines 172-191; the numbers of the model
\* divide without remainder
FlatBody(r) ==
    LET currentPrice == r.regularMarketPrice
        previousClose == OrElse(r.previousClose, r.chartPreviousClose)
        dayChange == IF Truthy(currentPrice) /\ Truthy(previousClose)
                     THEN currentPrice.num - previousClose.num ELSE 0
        dayChangePercent == IF Truthy(previousClose)
                            THEN (dayChange * 100) \div previousClose.num ELSE 0
    IN  [kind |-> "flat", currentPrice |-> currentPrice,
         previousClose |-> previousClose, dayChange |-> Num(dayChange),
         dayChangePercent |-> Num(dayChangePercent)]

\* part_001 lines 69-127, [symbol].js lines 145-195
AfterFetchFlattened(h, r) ==
    IF r.status # 200 THEN Catch(h, "Error", UpstreamHttpError)
    ELSE IF ~r.json THEN Catch(h, "SyntaxError", JsonError)
    ELSE IF r.chart # "result" THEN Respond(h, 404, ErrorBody)
    ELSE IF ~r.meta \/ ~r.regularMarketPrice.defined THEN Respond(h, 404, ErrorBody)
    ELSE Respond(h, 200, FlatBody(r))

\* [symbol].js lines 43-73
AfterFetchFirst(r) ==
    IF r.status # 200 THEN Catch(SymbolFirst, "Error", UpstreamHttpError)
    ELSE IF ~r.json THEN Catch(SymbolFirst, "SyntaxError", JsonError)
    ELSE IF r.chart # "result" THEN Catch(SymbolFirst, "Error", "No data found")
    ELSE IF ~r.meta \/ ~r.indicators
    THEN Catch(SymbolFirst, "Error", "Invalid data structure")
    ELSE Respond(SymbolFirst, 200, RawBody)

AfterFetch(h, r) ==
    IF h = SymbolFirst THEN AfterFetchFirst(r) ELSE AfterFetchFlattened(h, r)

NoUpstream == [requests |-> 0, symbol |-> <<>>, timeoutMs |-> 0, outcome |-> "none",
               reply |-> UpstreamReply(0, FALSE, "absent", FALSE, FALSE,
                                       Undefined, Undefined, Undefined)]

ProxyIdle == [handler |-> Part001, method |-> "GET", symbol |-> OtherValue("undefined", FALSE),
              pc |-> "idle", response |-> NoResponse, upstream |-> NoUpstream]

-----------------------------------------------------------------------------
(* The Health Check handler: src/api/health.js *)

Health == "health.js"

\* lines 32-38 and 41-48: the body of every answer to a GET; err is the
\* error member, "none" when the body has none. The timestamp is left out.
HealthyBody(yahoo, err) ==
    [kind |-> "health", status |-> "healthy", yahooFinanceAPI |-> yahoo,
     cors |-> "enabled", version |-> "1.0.0", error |-> err]

\* lines 11-24: OPTIONS and other methods are answered, a GET probes the upstream
BeforeProbe(method) ==
    IF method = "OPTIONS" THEN Answer(Respond(Health, 200, EmptyBody))
    ELSE IF method # "GET" THEN Answer(Respond(Health, 405, ErrorBody))
    ELSE Forward(<<"A","A","P","L">>)

\* (mutation: an error status of the probe is passed on as 503)
AfterProbePassesErrorOn(r) ==
    IF r.status = 200 THEN Respond(Health, 200, HealthyBody("connected", "none"))
    ELSE Respond(Health, 503, HealthyBody("error", "none"))

\* lines 30-38: the probe was answered; testResponse.ok decides the annotation
AfterProbe(r) ==
    Respond(Health, 200,
            HealthyBody(IF r.status = 200 THEN "connected" ELSE "error", "none"))

\* lines 40-48: the probe threw
CatchProbe(message) == Respond(Health, 200, HealthyBody("error", message))

-----------------------------------------------------------------------------
(* The report generator, lines 260-375 *)

\* lines 262-263 and 270-272, 277: the counts and the symbol list of the report
generateAnalysis(cleanedSymbols, priceMap) ==
    LET live == {i \in 1..Len(cleanedSymbols) :
                    /\ cleanedSymbols[i] \in DOMAIN priceMap
                    /\ ~priceMap[cleanedSymbols[i]].isSimulated}
    IN  [symbols |-> cleanedSymbols,
         liveDataCount |-> Cardinality(live),
         simulatedDataCount |-> Len(cleanedSymbols) - Cardinality(live),
         generated |-> TRUE]

\* a value of the field yearPerformance: a decimal number, held in hundredths,
\* or something parseFloat makes NaN of
Decimal(h)  == [numeric |-> TRUE, hundredths |-> h]
NotANumber  == [numeric |-> FALSE, hundredths |-> 0]

\* lines 25-28, in hundredths
safeParseFloat(value) == IF value.numeric THEN value.hundredths ELSE 0

BullishPercent == 10
BearishPercent == 0 - 15

\* (mutation: the coin decides for every symbol)
AlwaysCoinFlip(yearPerf, heads) == IF heads THEN "BUY" ELSE "WAIT"

\* lines 290-292 and 308-310; heads is Math.random() > 0.5
Recommendation(yearPerf, heads) ==
    IF yearPerf > BullishPercent * 100 THEN "BUY"
    ELSE IF yearPerf < BearishPercent * 100 THEN "WAIT"
    ELSE IF heads THEN "BUY" ELSE "WAIT"

\* line 287: the row of a symbol without an entry in the price map
UnavailableRow(share) ==
    [label |-> share, price |-> "N/A", recommendation |-> "WAIT", demo |-> FALSE]

\* (mutation: symbols without an entry are left out of the table)
OmitUnavailable(share, priceMap, heads) ==
    IF share \in DOMAIN priceMap
    THEN << [label |-> priceMap[share].symbol, price |-> "price",
             recommendation |->
                 Recommendation(safeParseFloat(priceMap[share].yearPerformance), heads),
             demo |-> priceMap[share].isSimulated] >>
    ELSE <<>>

\* lines 285-296: the table rows one symbol contributes
TableRow(share, priceMap, heads) ==
    IF share \in DOMAIN priceMap
    THEN << [label |-> priceMap[share].symbol, price |-> "price",
             recommendation |->
                 Recommendation(safeParseFloat(priceMap[share].yearPerformance), heads),
             demo |-> priceMap[share].isSimulated] >>
    ELSE << UnavailableRow(share) >>

\* lines 300-352: the detail sections one symbol contributes
DetailSection(share, priceMap, heads) ==
    IF share \in DOMAIN priceMap
    THEN << [label |-> priceMap[share].symbol, price |-> "price",
             recommendation |->
                 Recommendation(safeParseFloat(priceMap[share].yearPerformance), heads),
             demo |-> priceMap[share].isSimulated] >>
    ELSE << UnavailableRow(share) >>

\* cleanedSymbols.map(...).join: the pieces of all symbols in list order
RECURSIVE JoinRows(_, _, _, _)
JoinRows(cleanedSymbols, priceMap, flips, table) ==
    IF cleanedSymbols = <<>> THEN <<>>
    ELSE (IF table THEN TableRow(Head(cleanedSymbols), priceMap, Head(flips))
                   ELSE DetailSection(Head(cleanedSymbols), priceMap, Head(flips)))
         \o JoinRows(Tail(cleanedSymbols), priceMap, Tail(flips), table)

\* (mutation: the demo count counts the synthetic Quotes only)
CountSyntheticOnly(cleanedSymbols, priceMap) ==
    Cardinality({i \in 1..Len(cleanedSymbols) :
                    /\ cleanedSymbols[i] \in DOMAIN priceMap
                    /\ priceMap[cleanedSymbols[i]].isSimulated})

\* line 263
simulatedDataCount(cleanedSymbols, priceMap) ==
    Len(cleanedSymbols) - generateAnalysis(cleanedSymbols, priceMap).liveDataCount

\* lines 260-375: the report for a list, a price map and the outcomes of
\* Math.random() in the table and in the detail sections
ReportText(cleanedSymbols, priceMap, tableFlips, detailFlips) ==
    [liveDataCount |-> generateAnalysis(cleanedSymbols, priceMap).liveDataCount,
     simulatedDataCount |-> simulatedDataCount(cleanedSymbols, priceMap),
     total |-> Len(cleanedSymbols),
     rows |-> JoinRows(cleanedSymbols, priceMap, tableFlips, TRUE),
     sections |-> JoinRows(cleanedSymbols, priceMap, detailFlips, FALSE)]

NoText == [liveDataCount |-> 0, simulatedDataCount |-> 0, total |-> 0,
           rows |-> <<>>, sections |-> <<>>]

ReportIdle == [symbols |-> <<>>, priceMap |-> << >>, done |-> FALSE,
               report |-> NoText]

-----------------------------------------------------------------------------
(* Component state *)

\* useState(''): no report yet
NoReport == [symbols |-> <<>>, liveDataCount |-> 0, simulatedDataCount |-> 0,
             generated |-> FALSE]

IdleRun == [pc |-> "idle", symbols |-> <<>>, input |-> <<>>]

-----------------------------------------------------------------------------
(* The normalizer and the quote client on bounded inputs *)

NormIdle == [input |-> StringValue(<<>>), done |-> FALSE, threw |-> FALSE,
             result |-> <<>>]

NormInit ==
    /\ normCall \in {[input |-> v, done |-> FALSE, threw |-> FALSE, result |-> <<>>] :
                     v \in NormInputs}
    /\ reportCall = ReportIdle
    /\ proxyCall = ProxyIdle
    /\ apiConfig = DefaultConfig
    /\ closureConfig = DefaultConfig
    /\ calls = [s \in Slots |-> IdleCall]
    /\ quotes = [i \in QuoteSlots |-> NoQuote]
    /\ quoteSymbol = [i \in QuoteSlots |-> <<>>]
    /\ shareList = <<>>
    /\ analysis = NoReport
    /\ isAnalyzing = FALSE
    /\ error = ""
    /\ apiStatus = "testing"
    /\ isApiWorking = FALSE
    /\ run = IdleRun
    /\ tests = [s \in TestSlots |-> "idle"]
    /\ retestTimers = 0
    /\ configEdits = 0

Normalize ==
    /\ ~normCall.done
    /\ LET r == cleanAndValidateSymbols(normCall.input)
       IN  normCall' = [normCall EXCEPT !.done = TRUE, !.threw = r.threw,
                                        !.result = r.list]
    /\ UNCHANGED <<reportCall, proxyCall>>
    /\ UNCHANGED fetchVars
    /\ UNCHANGED uiVars

NormNext == Normalize

SpecNorm == NormInit /\ [][NormNext]_vars

\* fetchWithTimeout as defined in a render whose apiConfig is cfg
MaxRetry == 3
FetchConfigs ==
    {[DefaultConfig EXCEPT !.retryAttempts = n, !.timeout = ms] :
        n \in 1..MaxRetry, ms \in {ShortTimeout, DefaultTimeout}}

FetchSymbols == {<<"A","A","P","L">>, <<"J","S","E",":","S","T","X">>}

FetchInit ==
    /\ normCall = NormIdle
    /\ reportCall = ReportIdle
    /\ proxyCall = ProxyIdle
    /\ apiConfig = DefaultConfig
    /\ closureConfig \in FetchConfigs
    /\ calls = [s \in Slots |-> IdleCall]
    /\ quotes = [i \in QuoteSlots |-> NoQuote]
    /\ quoteSymbol = [i \in QuoteSlots |-> <<>>]
    /\ shareList = <<>>
    /\ analysis = NoReport
    /\ isAnalyzing = FALSE
    /\ error = ""
    /\ apiStatus = "testing"
    /\ isApiWorking = FALSE
    /\ run = IdleRun
    /\ tests = [s \in TestSlots |-> "idle"]
    /\ retestTimers = 0
    /\ configEdits = 0

\* fetchLatestPrice(symbol), line 192
CallFetchLatestPrice ==
    \E symbol \in FetchSymbols :
        /\ calls["q1"].pc = "idle"
        /\ quoteSymbol' = [quoteSymbol EXCEPT !["q1"] = symbol]
        /\ calls' = [calls EXCEPT !["q1"] =
               BeginCall([path |-> "/api/stock/", symbol |-> symbol])]
        /\ UNCHANGED <<normCall, reportCall, proxyCall, apiConfig, closureConfig, quotes>>
        /\ UNCHANGED uiVars

FetchNext ==
    \/ CallFetchLatestPrice
    \/ QuoteReply("q1", StockReplies, ReplyDelays)
    \/ QuoteFetchFails("q1", NetworkErrors, ReplyDelays)
    \/ QuoteTimerFires("q1")
    \/ QuoteAbortedFetch("q1")
    \/ QuoteWaitEnds("q1")

SpecFetch == FetchInit /\ [][FetchNext]_vars

\* the timer, the backoff wait and the rejection of an aborted fetch are
\* scheduled by the browser and always happen; the endpoint may stay silent
FairSpecFetch ==
    /\ SpecFetch
    /\ WF_vars(QuoteTimerFires("q1"))
    /\ WF_vars(QuoteAbortedFetch("q1"))
    /\ WF_vars(QuoteWaitEnds("q1"))

-----------------------------------------------------------------------------
(* The component: connectivity test, analysis run, configuration *)

HealthPath  == [path |-> "/api/health", symbol |-> <<>>]
TestSymbol  == <<"A","A","P","L">>
StockPath(symbol) == [path |-> "/api/stock/", symbol |-> symbol]

EmptyInputMessage    == "Please enter at least one share symbol"
NoValidMessage       == "No valid symbols found. Please enter valid stock symbols"
AnalysisFailedPrefix == "Analysis failed: "

\* what the user types into the symbol box: blank, nothing valid, two symbols
AppInputs ==
    { <<" ", " ">>,
      <<"1", "!", ",", "x">>,
      <<"a","a","p","l",","," ","j","s","e",":","s","t","x",",","A","A","P","L">> }

SlotOrder == <<"q1", "q2">>
RunSlots(symbols) == {SlotOrder[i] : i \in 1..Len(symbols)}
SymbolAt(symbols, s) == symbols[CHOOSE i \in 1..Len(symbols) : SlotOrder[i] = s]

\* line 402: one fetchLatestPrice call per cleaned symbol
FanOutCalls(base, symbols) ==
    [s \in Slots |-> IF s \in RunSlots(symbols)
                     THEN BeginCall(StockPath(SymbolAt(symbols, s)))
                     ELSE base[s]]
FanOutSymbols(symbols) ==
    [s \in QuoteSlots |-> IF s \in RunSlots(symbols) THEN SymbolAt(symbols, s) ELSE <<>>]

\* what /api/health sends back
HealthReplies == {"okHealthy", "okUnhealthy", "httpError"}

HealthErrorMessage    == "Health API Error: 500 Internal Server Error. {error body}"
UnhealthyMessage      == "API health check failed: Unknown health issue"
StockErrorMessage     == "Stock API Error: 500 Internal Server Error. {error body}"
StockStructureMessage == "Invalid stock API response structure - missing price data"

\* lines 93-127: what the try block of testApiConnection throws for a reply
TestReplyFailure(phase, kind) ==
    IF phase = "health"
    THEN IF kind = "httpError" THEN HealthErrorMessage
         ELSE IF kind = "okUnhealthy" THEN UnhealthyMessage
         ELSE ""
    ELSE IF kind = "httpError" THEN StockErrorMessage
         ELSE IF kind = "okBadJson" THEN BadJsonMessage
         ELSE IF kind = "okNoPrice" THEN StockStructureMessage
         ELSE ""

\* lines 140-151: messages that mention CORS or Network Error give a warning
TestFailureStatus(message) ==
    IF message = NetworkMessage THEN "warning" ELSE "error"

\* line 87 and line 91: a testApiConnection call starts in slot s
TestStartsFrom(s, base) ==
    /\ apiStatus' = "testing"
    /\ tests' = [tests EXCEPT ![s] = "health"]
    /\ calls' = [base EXCEPT ![s] = BeginCall(HealthPath)]

TestStarts(s) == TestStartsFrom(s, calls)

\* (mutation: the re-test of line 398 is not awaited, the fan-out starts with it)
RetestNotAwaited(base, symbols) == FanOutCalls(base, symbols)

\* lines 396-399: analyzeShares awaits the re-test; no other request of the
\* analysis is issued until it has ended
AwaitRetest(base, symbols) == base

\* (mutation: setIsApiWorking(false) of line 158 is missing)
KeepsWorkingOnFailure(message) == message = "" \/ isApiWorking

\* lines 135 and 158: isApiWorking after a test that ended with message ("" for
\* a success)
WorkingAfter(message) == message = ""

\* lines 130-135 and 153-158: the call in slot s ends; when it is the one
\* analyzeShares awaits (line 398), the fan-out of line 402 follows at once
TestConcludes(s, message) ==
    /\ apiStatus' = IF message = "" THEN "success" ELSE TestFailureStatus(message)
    /\ isApiWorking' = WorkingAfter(message)
    /\ tests' = [tests EXCEPT ![s] = "idle"]
    /\ IF s = "re"
       THEN /\ run' = [run EXCEPT !.pc = "fetching"]
            /\ calls' = FanOutCalls([calls EXCEPT ![s] = IdleCall], run.symbols)
            /\ quoteSymbol' = FanOutSymbols(run.symbols)
       ELSE /\ calls' = [calls EXCEPT ![s] = IdleCall]
            /\ UNCHANGED <<run, quoteSymbol>>
    /\ UNCHANGED <<normCall, reportCall, proxyCall, apiConfig, closureConfig, quotes, shareList, analysis,
                   isAnalyzing, error, retestTimers, configEdits>>

\* a step of the fetchWithTimeout call of the test in slot s, leaving it as c
TestStep(s, c) ==
    IF c.pc = "threw" THEN TestConcludes(s, c.outcome)
    ELSE IF c.pc = "returned" /\ TestReplyFailure(tests[s], c.outcome) # ""
    THEN TestConcludes(s, TestReplyFailure(tests[s], c.outcome))
    ELSE IF c.pc = "returned" /\ tests[s] = "stock" THEN TestConcludes(s, "")
    ELSE /\ calls' = [calls EXCEPT ![s] =
                        IF c.pc = "returned" THEN BeginCall(StockPath(TestSymbol)) ELSE c]
         /\ tests' = [tests EXCEPT ![s] = IF c.pc = "returned" THEN "stock" ELSE @]
         /\ UNCHANGED <<normCall, reportCall, proxyCall, apiConfig, closureConfig, quotes, quoteSymbol,
                        shareList, analysis, isAnalyzing, error, apiStatus,
                        isApiWorking, run, retestTimers, configEdits>>

TestReply(s, healthKinds, stockKinds, delays) ==
    \E kind \in (IF tests[s] = "health" THEN healthKinds ELSE stockKinds),
       d \in delays :
        /\ tests[s] # "idle"
        /\ CanArrive(calls[s], d)
        /\ TestStep(s, OnResponse(calls[s], kind, calls[s].t + d))

TestFetchFails(s, errors, delays) ==
    \E e \in errors, d \in delays :
        /\ tests[s] # "idle"
        /\ CanArrive(calls[s], d)
        /\ TestStep(s, OnReject(calls[s], e, calls[s].t + d))

TestTimerFires(s) ==
    /\ tests[s] # "idle"
    /\ InFlight(calls[s])
    /\ TestStep(s, OnTimer(calls[s]))

TestAbortedFetch(s) ==
    /\ tests[s] # "idle"
    /\ calls[s].pc = "fetch"
    /\ calls[s].aborted
    /\ TestStep(s, OnReject(calls[s], "AbortError", calls[s].t))

TestWaitEnds(s) ==
    /\ tests[s] # "idle"
    /\ calls[s].pc = "backoff"
    /\ TestStep(s, OnWaitEnd(calls[s]))

\* the Test Connection button (lines 561, 625)
ClickTestConnection ==
    /\ tests["bg"] = "idle"
    /\ TestStarts("bg")
    /\ UNCHANGED <<normCall, reportCall, proxyCall, apiConfig, closureConfig, quotes, quoteSymbol, shareList,
                   analysis, isAnalyzing, error, isApiWorking, run, retestTimers,
                   configEdits>>

\* lines 439, 449: the timer set by a configuration change fires
RetestTimerFires ==
    /\ retestTimers > 0
    /\ tests["bg"] = "idle"
    /\ retestTimers' = retestTimers - 1
    /\ TestStarts("bg")
    /\ UNCHANGED <<normCall, reportCall, proxyCall, apiConfig, closureConfig, quotes, quoteSymbol, shareList,
                   analysis, isAnalyzing, error, isApiWorking, run, configEdits>>

\* lines 680-683: onChange of the symbol box
SetShareList(inputs) ==
    \E v \in inputs :
        /\ shareList' = v
        /\ error' = ""
        /\ UNCHANGED <<normCall, reportCall, proxyCall, apiConfig, closureConfig, calls, quotes, quoteSymbol,
                       analysis, isAnalyzing, apiStatus, isApiWorking, run, tests,
                       retestTimers, configEdits>>

\* (mutation: the empty-list check of line 386 is missing)
ValidationErrorBlankOnly(input) ==
    IF Trim(input) = <<>> THEN EmptyInputMessage ELSE ""

\* lines 378-389: the error analyzeShares stops with, "" when the input is valid
ValidationError(input) ==
    IF Trim(input) = <<>> THEN EmptyInputMessage
    ELSE IF Len(cleanAndValidateSymbols(StringValue(input)).list) = 0
    THEN NoValidMessage
    ELSE ""

\* lines 377-403: the Generate Analysis button, up to the first await
AnalyzeShares ==
    /\ ~isAnalyzing
    /\ run.pc = "idle"
    /\ LET cleanedSymbols == cleanAndValidateSymbols(StringValue(shareList)).list
       IN  IF ValidationError(shareList) # ""
           THEN /\ error' = ValidationError(shareList)
                /\ UNCHANGED <<calls, quotes, quoteSymbol, isAnalyzing, apiStatus,
                               run, tests>>
           ELSE /\ isAnalyzing' = TRUE
                /\ error' = ""
                /\ quotes' = [i \in QuoteSlots |-> NoQuote]
                /\ IF ~isApiWorking
                   THEN /\ run' = [pc |-> "retest", symbols |-> cleanedSymbols,
                                   input |-> shareList]
                        /\ TestStartsFrom("re", AwaitRetest(calls, cleanedSymbols))
                        /\ UNCHANGED quoteSymbol
                   ELSE /\ run' = [pc |-> "fetching", symbols |-> cleanedSymbols,
                                   input |-> shareList]
                        /\ calls' = FanOutCalls(calls, cleanedSymbols)
                        /\ quoteSymbol' = FanOutSymbols(cleanedSymbols)
                        /\ UNCHANGED <<apiStatus, tests>>
    /\ UNCHANGED <<normCall, reportCall, proxyCall, apiConfig, closureConfig, shareList, analysis,
                   isApiWorking, retestTimers, configEdits>>

\* lines 405-409: priceMap[share] = priceData[index]; a later index overwrites
PriceMapOf(symbols, priceData) ==
    [share \in Range(symbols) |->
        priceData[SlotOrder[CHOOSE i \in 1..Len(symbols) :
                      /\ symbols[i] = share
                      /\ \A j \in (i + 1)..Len(symbols) : symbols[j] # share]]]

\* (mutation: the list is recomputed from the input box when the fetches end)
SymbolsOfCurrentInput(r, current) ==
    cleanAndValidateSymbols(StringValue(current)).list

\* lines 384 and 412: the const cleanedSymbols of the analyzeShares call
HandedSymbols(r, current) == r.symbols

\* lines 403-420: Promise.all settles; it rejects as soon as one promise rejects
PromiseAllSettles ==
    /\ run.pc = "fetching"
    /\ LET slots == RunSlots(run.symbols)
           rejected == {s \in slots : quotes[s].state = "rejected"}
       IN  /\ rejected # {} \/ \A s \in slots : quotes[s].state = "resolved"
           /\ IF rejected # {}
              THEN /\ error' = AnalysisFailedPrefix
                   /\ UNCHANGED analysis
              ELSE /\ analysis' = generateAnalysis(HandedSymbols(run, shareList),
                                                    PriceMapOf(run.symbols, quotes))
                   /\ UNCHANGED error
    /\ isAnalyzing' = FALSE
    /\ run' = IdleRun
    /\ calls' = [s \in Slots |-> IF s \in QuoteSlots THEN IdleCall ELSE calls[s]]
    /\ quotes' = [i \in QuoteSlots |-> NoQuote]
    /\ quoteSymbol' = [i \in QuoteSlots |-> <<>>]
    /\ UNCHANGED <<normCall, reportCall, proxyCall, apiConfig, closureConfig, shareList, apiStatus,
                   isApiWorking, tests, retestTimers, configEdits>>

\* the fields of the configuration panel (lines 581, 593, 604, 615)
MaxConfigEdits == 1
UpdateChoices ==
    { [field |-> "baseUrl", text |-> "https://other.example", number |-> 0],
      [field |-> "timeout", text |-> "", number |-> ShortTimeout],
      [field |-> "retryAttempts", text |-> "", number |-> 1],
      [field |-> "corsMode", text |-> "no-cors", number |-> 0] }

\* line 437: { ...prev, ...newConfig }, newConfig holding the one field u names
Merge(prev, u) ==
    [baseUrl |-> IF u.field = "baseUrl" THEN u.text ELSE prev.baseUrl,
     timeout |-> IF u.field = "timeout" THEN u.number ELSE prev.timeout,
     corsMode |-> IF u.field = "corsMode" THEN u.text ELSE prev.corsMode,
     retryAttempts |-> IF u.field = "retryAttempts" THEN u.number
                       ELSE prev.retryAttempts]

\* lines 436-440
updateApiConfig ==
    \E u \in UpdateChoices :
        /\ configEdits < MaxConfigEdits
        /\ configEdits' = configEdits + 1
        /\ apiConfig' = Merge(apiConfig, u)
        /\ retestTimers' = retestTimers + 1
        /\ UNCHANGED <<normCall, reportCall, proxyCall, closureConfig, calls, quotes, quoteSymbol, shareList,
                       analysis, isAnalyzing, error, apiStatus, isApiWorking, run,
                       tests>>

\* lines 442-450
resetApiConfig ==
    /\ configEdits < MaxConfigEdits
    /\ configEdits' = configEdits + 1
    /\ apiConfig' = DefaultConfig
    /\ retestTimers' = retestTimers + 1
    /\ UNCHANGED <<normCall, reportCall, proxyCall, closureConfig, calls, quotes, quoteSymbol, shareList,
                   analysis, isAnalyzing, error, apiStatus, isApiWorking, run, tests>>

\* after the first render and its effect (lines 82-84): the mount test is running
Init ==
    /\ normCall = NormIdle
    /\ reportCall = ReportIdle
    /\ proxyCall = ProxyIdle
    /\ apiConfig = DefaultConfig
    /\ closureConfig = DefaultConfig
    /\ calls = [s \in Slots |-> IF s = "bg" THEN BeginCallWith(DefaultConfig, HealthPath)
                                ELSE IdleCall]
    /\ quotes = [i \in QuoteSlots |-> NoQuote]
    /\ quoteSymbol = [i \in QuoteSlots |-> <<>>]
    /\ shareList = <<>>
    /\ analysis = NoReport
    /\ isAnalyzing = FALSE
    /\ error = ""
    /\ apiStatus = "testing"
    /\ isApiWorking = FALSE
    /\ run = IdleRun
    /\ tests = [s \in TestSlots |-> IF s = "bg" THEN "health" ELSE "idle"]
    /\ retestTimers = 0
    /\ configEdits = 0

\* the endpoint as the component scenarios see it: it answers at once with a
\* price or an error status, fails at once with a network error, or stays silent
AppStockReplies  == {"okPrice", "httpError"}
AppHealthReplies == {"okHealthy", "httpError"}
AppErrors        == {"FailedToFetch"}
AppDelays        == {FastDelay}

QuoteNext(i) ==
    \/ QuoteReply(i, AppStockReplies, AppDelays)
    \/ QuoteFetchFails(i, AppErrors, AppDelays)
    \/ QuoteTimerFires(i)
    \/ QuoteAbortedFetch(i)
    \/ QuoteWaitEnds(i)

TestNext(s) ==
    \/ TestReply(s, AppHealthReplies, AppStockReplies, AppDelays)
    \/ TestFetchFails(s, AppErrors, AppDelays)
    \/ TestTimerFires(s)
    \/ TestAbortedFetch(s)
    \/ TestWaitEnds(s)

\* the analysis scenario: the user types, analyses and re-tests the connection;
\* the configuration panel stays closed (no action reads apiConfig)
Next ==
    \/ SetShareList(AppInputs)
    \/ AnalyzeShares
    \/ PromiseAllSettles
    \/ ClickTestConnection
    \/ \E i \in QuoteSlots : QuoteNext(i)
    \/ \E s \in TestSlots : TestNext(s)

Spec == Init /\ [][Next]_vars

\* timers, backoff waits, the rejection of an aborted fetch and promise
\* continuations are scheduled by the browser and always run; the endpoint may
\* stay silent and the user may do nothing
QuoteScheduled(i) ==
    QuoteTimerFires(i) \/ QuoteAbortedFetch(i) \/ QuoteWaitEnds(i)
TestScheduled(s) ==
    TestTimerFires(s) \/ TestAbortedFetch(s) \/ TestWaitEnds(s)

FairSpec ==
    /\ Spec
    /\ \A i \in QuoteSlots : WF_vars(QuoteScheduled(i))
    /\ \A s \in TestSlots : WF_vars(TestScheduled(s))
    /\ WF_vars(PromiseAllSettles)

\* the configuration scenario: the user edits the configuration panel, and
\* analyses one symbol
ConfigInputs == { <<"a","a","p","l">> }

ConfigNext ==
    \/ SetShareList(ConfigInputs)
    \/ AnalyzeShares
    \/ PromiseAllSettles
    \/ RetestTimerFires
    \/ updateApiConfig
    \/ resetApiConfig
    \/ QuoteNext("q1")
    \/ \E s \in TestSlots : TestNext(s)

SpecConfig == Init /\ [][ConfigNext]_vars

-----------------------------------------------------------------------------
(* The report generator on bounded inputs *)

\* bounded inputs of the generator: lists of up to MaxSymbols symbols,
\* repetitions included, and price maps that may lack entries
MaxSymbols == 2
ReportShares == {<<"A","A","P","L">>, <<"M","S","F","T">>}
PerfValues == {Decimal(0 - 1501), Decimal(0 - 1500), Decimal(1000), Decimal(1004),
               NotANumber}
ReportQuotes ==
    {[symbol |-> sym, isSimulated |-> b, yearPerformance |-> p] :
        sym \in ReportShares, b \in BOOLEAN, p \in PerfValues}
PriceMaps == UNION {[D -> ReportQuotes] : D \in SUBSET ReportShares}
FlipsOf(n) == [1..n -> BOOLEAN]

ReportInit ==
    /\ normCall = NormIdle
    /\ reportCall \in {[symbols |-> l, priceMap |-> pm, done |-> FALSE,
                        report |-> NoText] :
                       l \in SeqsUpTo(ReportShares, MaxSymbols), pm \in PriceMaps}
    /\ proxyCall = ProxyIdle
    /\ apiConfig = DefaultConfig
    /\ closureConfig = DefaultConfig
    /\ calls = [s \in Slots |-> IdleCall]
    /\ quotes = [i \in QuoteSlots |-> NoQuote]
    /\ quoteSymbol = [i \in QuoteSlots |-> <<>>]
    /\ shareList = <<>>
    /\ analysis = NoReport
    /\ isAnalyzing = FALSE
    /\ error = ""
    /\ apiStatus = "testing"
    /\ isApiWorking = FALSE
    /\ run = IdleRun
    /\ tests = [s \in TestSlots |-> "idle"]
    /\ retestTimers = 0
    /\ configEdits = 0

GenerateReport ==
    /\ ~reportCall.done
    /\ \E tableFlips, detailFlips \in FlipsOf(Len(reportCall.symbols)) :
          reportCall' = [reportCall EXCEPT
              !.done = TRUE,
              !.report = ReportText(reportCall.symbols, reportCall.priceMap,
                                    tableFlips, detailFlips)]
    /\ UNCHANGED <<normCall, proxyCall>>
    /\ UNCHANGED fetchVars
    /\ UNCHANGED uiVars

ReportNext == GenerateReport

SpecReport == ReportInit /\ [][ReportNext]_vars

-----------------------------------------------------------------------------
(* The Quote Proxy handlers on bounded requests *)

ProxyMethods == {"GET", "OPTIONS", "POST"}

\* req.query.symbol: missing, a repeated parameter (an array), or a string
ProxySymbols ==
    { OtherValue("undefined", FALSE),
      OtherValue("object", TRUE),
      StringValue(<<>>),
      StringValue(<<" ", " ">>),
      StringValue(<<"A","A","P","L">>),
      StringValue(<<" ","m","s","f","t"," ">>),
      StringValue(<<"B","R","K",".","A">>),
      StringValue(<<"A","!","B">>),
      StringValue(<<"J","S","E",":","S","T","X">>),
      StringValue(<<"L","O","N",":","V","O","D">>) }

\* the documents the upstream may send with status 200: not JSON, without
\* chart, with result null or [], with a result that has no meta, no price or
\* no indicators, and complete ones
UpstreamPrices == {Num(0), Num(90), Num(150)}
UpstreamCloses == {Undefined, Num(0), Num(100)}
UpstreamChartCloses == {Undefined, Num(120)}
UpstreamDocuments ==
    { UpstreamReply(200, FALSE, "absent", FALSE, FALSE, Undefined, Undefined, Undefined),
      UpstreamReply(200, TRUE, "absent", FALSE, FALSE, Undefined, Undefined, Undefined),
      UpstreamReply(200, TRUE, "null", FALSE, FALSE, Undefined, Undefined, Undefined),
      UpstreamReply(200, TRUE, "empty", FALSE, FALSE, Undefined, Undefined, Undefined),
      UpstreamReply(200, TRUE, "result", FALSE, TRUE, Undefined, Undefined, Undefined),
      UpstreamReply(200, TRUE, "result", TRUE, TRUE, Undefined, Num(100), Undefined) }
    \cup { UpstreamReply(200, TRUE, "result", TRUE, ind, price, prev, chartPrev) :
             ind \in BOOLEAN, price \in UpstreamPrices, prev \in UpstreamCloses,
             chartPrev \in UpstreamChartCloses }
\* an error status; Yahoo answers 404 with a chart document whose result is null
UpstreamErrors ==
    { UpstreamReply(st, TRUE, "null", FALSE, FALSE, Undefined, Undefined, Undefined) :
        st \in {404, 500} }
UpstreamReplies == UpstreamDocuments \cup UpstreamErrors

ProxyInit ==
    /\ normCall = NormIdle
    /\ reportCall = ReportIdle
    /\ proxyCall \in {[ProxyIdle EXCEPT !.handler = h, !.method = mt, !.symbol = sym,
                                        !.pc = "received"] :
                      h \in Handlers, mt \in ProxyMethods, sym \in ProxySymbols}
    /\ apiConfig = DefaultConfig
    /\ closureConfig = DefaultConfig
    /\ calls = [s \in Slots |-> IdleCall]
    /\ quotes = [i \in QuoteSlots |-> NoQuote]
    /\ quoteSymbol = [i \in QuoteSlots |-> <<>>]
    /\ shareList = <<>>
    /\ analysis = NoReport
    /\ isAnalyzing = FALSE
    /\ error = ""
    /\ apiStatus = "testing"
    /\ isApiWorking = FALSE
    /\ run = IdleRun
    /\ tests = [s \in TestSlots |-> "idle"]
    /\ retestTimers = 0
    /\ configEdits = 0

ProxyUnchanged ==
    /\ UNCHANGED <<normCall, reportCall>>
    /\ UNCHANGED fetchVars
    /\ UNCHANGED uiVars

\* the handler runs up to its first await: it answers, or it asks the upstream
HandleRequest ==
    /\ proxyCall.pc = "received"
    /\ LET b == BeforeFetch(proxyCall.handler, proxyCall.method, proxyCall.symbol)
       IN  proxyCall' =
             IF b.forward
             THEN [proxyCall EXCEPT
                     !.pc = "upstream",
                     !.upstream = [NoUpstream EXCEPT
                                      !.requests = 1,
                                      !.symbol = b.cleanSymbol,
                                      !.timeoutMs = TimeoutOf(proxyCall.handler)]]
             ELSE [proxyCall EXCEPT !.pc = "responded", !.response = b.response]
    /\ ProxyUnchanged

\* the upstream answers before the timer, with a status and a document
UpstreamAnswers ==
    /\ proxyCall.pc = "upstream"
    /\ \E r \in UpstreamReplies :
          proxyCall' = [proxyCall EXCEPT
              !.pc = "responded",
              !.upstream.outcome = "reply",
              !.upstream.reply = r,
              !.response = AfterFetch(proxyCall.handler, r)]
    /\ ProxyUnchanged

\* fetch rejects: the upstream cannot be reached
UpstreamUnreachable ==
    /\ proxyCall.pc = "upstream"
    /\ proxyCall' = [proxyCall EXCEPT
          !.pc = "responded",
          !.upstream.outcome = "unreachable",
          !.response = Catch(proxyCall.handler, "TypeError", FetchFailed)]
    /\ ProxyUnchanged

\* the upstream stays silent until the timer aborts the fetch
ProxyTimerFires ==
    /\ proxyCall.pc = "upstream"
    /\ proxyCall.upstream.timeoutMs > 0
    /\ proxyCall' = [proxyCall EXCEPT
          !.pc = "responded",
          !.upstream.outcome = "timeout",
          !.response = Catch(proxyCall.handler, Aborted, "The operation was aborted")]
    /\ ProxyUnchanged

ProxyNext ==
    \/ HandleRequest
    \/ UpstreamAnswers
    \/ UpstreamUnreachable
    \/ ProxyTimerFires

SpecProxy == ProxyInit /\ [][ProxyNext]_vars

-----------------------------------------------------------------------------
(* The backend: the Quote Proxy handlers and the Health Check *)

BackendInit ==
    /\ normCall = NormIdle
    /\ reportCall = ReportIdle
    /\ proxyCall \in
          {[ProxyIdle EXCEPT !.handler = h, !.method = mt, !.symbol = sym,
                             !.pc = "received"] :
              h \in Handlers, mt \in ProxyMethods, sym \in ProxySymbols}
          \cup
          {[ProxyIdle EXCEPT !.handler = Health, !.method = mt, !.pc = "received"] :
              mt \in ProxyMethods}
    /\ apiConfig = DefaultConfig
    /\ closureConfig = DefaultConfig
    /\ calls = [s \in Slots |-> IdleCall]
    /\ quotes = [i \in QuoteSlots |-> NoQuote]
    /\ quoteSymbol = [i \in QuoteSlots |-> <<>>]
    /\ shareList = <<>>
    /\ analysis = NoReport
    /\ isAnalyzing = FALSE
    /\ error = ""
    /\ apiStatus = "testing"
    /\ isApiWorking = FALSE
    /\ run = IdleRun
    /\ tests = [s \in TestSlots |-> "idle"]
    /\ retestTimers = 0
    /\ configEdits = 0

\* health.js up to its await: it answers, or it probes the upstream without
\* arming any timer
HealthHandleRequest ==
    /\ proxyCall.handler = Health
    /\ proxyCall.pc = "received"
    /\ LET b == BeforeProbe(proxyCall.method)
       IN  proxyCall' =
             IF b.forward
             THEN [proxyCall EXCEPT
                     !.pc = "upstream",
                     !.upstream = [NoUpstream EXCEPT !.requests = 1,
                                                     !.symbol = b.cleanSymbol]]
             ELSE [proxyCall EXCEPT !.pc = "responded", !.response = b.response]
    /\ ProxyUnchanged

\* the probe is answered, with an OK or an error status
ProbeAnswers ==
    /\ proxyCall.handler = Health
    /\ proxyCall.pc = "upstream"
    /\ \E r \in UpstreamErrors \cup
                {UpstreamReply(200, TRUE, "result", TRUE, TRUE, Num(150), Num(100),
                               Undefined)} :
          proxyCall' = [proxyCall EXCEPT
              !.pc = "responded",
              !.upstream.outcome = "reply",
              !.upstream.reply = r,
              !.response = AfterProbe(r)]
    /\ ProxyUnchanged

\* the probe throws: the upstream cannot be reached
ProbeUnreachable ==
    /\ proxyCall.handler = Health
    /\ proxyCall.pc = "upstream"
    /\ proxyCall' = [proxyCall EXCEPT
          !.pc = "responded",
          !.upstream.outcome = "unreachable",
          !.response = CatchProbe(FetchFailed)]
    /\ ProxyUnchanged

HealthNext ==
    \/ HealthHandleRequest
    \/ ProbeAnswers
    \/ ProbeUnreachable

QuoteProxyNext == proxyCall.handler \in Handlers /\ ProxyNext

BackendNext ==
    \/ QuoteProxyNext
    \/ HealthNext

SpecBackend == BackendInit /\ [][BackendNext]_vars

\* a handler that has received a request runs, and an armed timer fires; the
\* upstream may answer, fail, or stay silent for ever
FairSpecBackend ==
    /\ SpecBackend
    /\ WF_vars(HealthHandleRequest)
    /\ WF_vars(proxyCall.handler \in Handlers /\ HandleRequest)
    /\ WF_vars(proxyCall.handler \in Handlers /\ ProxyTimerFires)

-----------------------------------------------------------------------------
(* Claims about the normalizer *)

Letters == {"A","B","C","D","E","F","G","H","I","J","K","L","M",
            "N","O","P","Q","R","S","T","U","V","W","X","Y","Z"}
IsTicker(s) == Len(s) \in 2..6 /\ \A i \in 1..Len(s) : s[i] \in Letters
IsMarketTicker(s) ==
    \E k \in 1..Len(s) :
        /\ s[k] = ":"
        /\ IsTicker([i \in 1..(k - 1) |-> s[i]])
        /\ IsTicker([i \in 1..(Len(s) - k) |-> s[k + i]])

\* C1: for every input (any string, the empty string, any non-string value)
\* cleanAndValidateSymbols returns without throwing a list whose elements all
\* match ^[A-Z]{2,6}$ or ^[A-Z]{2,6}:[A-Z]{2,6}$ and are pairwise distinct; for
\* the empty string the list is empty.
C1_NormalizerOutputValid ==
    normCall.done =>
        /\ ~normCall.threw
        /\ \A i \in 1..Len(normCall.result) :
               IsTicker(normCall.result[i]) \/ IsMarketTicker(normCall.result[i])
        /\ \A i, j \in 1..Len(normCall.result) :
               i # j => normCall.result[i] # normCall.result[j]
        /\ (normCall.input.type = "string" /\ normCall.input.chars = <<>>)
               => normCall.result = <<>>

\* C1 witness: the input "aB,aB", which writes one symbol twice, has been
\* normalized to the list holding AB once.
C1_Witness ==
    /\ normCall.done
    /\ normCall.input = StringValue(<<"a", "B", ",", "a", "B">>)
    /\ normCall.result = << <<"A", "B">> >>

AAPL == <<"A","A","P","L">>
MSFT == <<"M","S","F","T">>
BAD  == <<"B","A","D">>

\* C2 as stated: for " aapl , msft, bad!!, AAPL" the result is exactly AAPL and
\* MSFT, the piece "bad!!" contributing nothing.
C2_Original ==
    (normCall.done /\ normCall.input = StringValue(SpecExampleInput))
        => Range(normCall.result) = {AAPL, MSFT}

\* the characters of a piece that lie in [A-Za-z0-9:.], in order, upper-cased
RECURSIVE KeptUpper(_)
KeptUpper(p) ==
    IF p = <<>> THEN <<>>
    ELSE LET c == Head(p)
             rest == KeptUpper(Tail(p))
         IN  IF \E i \in 1..26 : c = LowerChars[i] THEN <<UpperChars[CHOOSE i \in 1..26 : c = LowerChars[i]]>> \o rest
             ELSE IF c \in Letters \cup DigitChars \cup {":", "."} THEN <<c>> \o rest
             ELSE rest

\* C2 amended: for " aapl , msft, bad!!, AAPL" the result is AAPL, MSFT, BAD; in
\* general the invalid punctuation of a piece is stripped and the piece is kept
\* exactly when what remains has ticker shape.
C2_StripThenValidate ==
    (normCall.done /\ normCall.input.type = "string") =>
        /\ normCall.input = StringValue(SpecExampleInput)
               => normCall.result = <<AAPL, MSFT, BAD>>
        /\ normCall.input.chars # <<>> =>
               Range(normCall.result) =
                   { KeptUpper(SplitComma(normCall.input.chars)[k]) :
                       k \in { n \in 1..Len(SplitComma(normCall.input.chars)) :
                                 LET u == KeptUpper(SplitComma(normCall.input.chars)[n])
                                 IN  IsTicker(u) \/ IsMarketTicker(u) } }

\* C2 witness: the spec's example input has been normalized and BAD is in the
\* result.
C2_Witness ==
    /\ normCall.done
    /\ normCall.input = StringValue(SpecExampleInput)
    /\ \E i \in 1..Len(normCall.result) : normCall.result[i] = BAD

-----------------------------------------------------------------------------
(* Claims about the quote client *)

Finished(c) == c.pc \in {"returned", "threw"}
Started(c)  == c.pc # "idle"

\* C3: every call of fetchLatestPrice resolves to a Quote and never rejects,
\* whatever the proxy does; after an HTTP error reply the Quote is synthetic with
\* a non-empty error detail; a live Quote is returned only for an OK reply that
\* carried a current price.
C3_QuoteClientNeverRejects ==
    /\ [](\A i \in QuoteSlots :
            /\ quotes[i].state # "rejected"
            /\ Finished(calls[i]) => quotes[i].state = "resolved"
            /\ (calls[i].pc = "returned" /\ calls[i].outcome = "httpError") =>
                   /\ quotes[i].isSimulated
                   /\ quotes[i].errorDetails \notin {"", "none"}
            /\ (quotes[i].state = "resolved" /\ ~quotes[i].isSimulated) =>
                   (calls[i].pc = "returned" /\ calls[i].outcome = "okPrice"))
    /\ \A i \in QuoteSlots : Started(calls[i]) ~> (quotes[i].state = "resolved")

\* C3 witness: the proxy answered with an error status and the call resolved
\* to a synthetic Quote carrying the HTTP error text.
C3_Witness ==
    /\ calls["q1"].pc = "returned"
    /\ calls["q1"].outcome = "httpError"
    /\ quotes["q1"].state = "resolved"
    /\ quotes["q1"].isSimulated
    /\ quotes["q1"].errorDetails = HttpErrorMessage

RECURSIVE SumSeq(_)
SumSeq(q) == IF q = <<>> THEN 0 ELSE Head(q) + SumSeq(Tail(q))

\* the backoff waits of a call that uses all n attempts: 1000, 2000, ..., (n-1)000
AllBackoffs(n) == SumSeq([k \in 1..(n - 1) |-> 1000 * k])

\* C4: when the endpoint never responds the call does not hang: it resolves, no
\* later than the timeout plus the backoff waits, to a synthetic Quote whose
\* error detail names a timeout. (The timeout is the one the call was started
\* with, API_TIMEOUT.)
C4_SilentEndpointTimesOut ==
    /\ [](\A i \in QuoteSlots :
            (Started(calls[i]) /\ calls[i].silent) =>
                /\ calls[i].t <= API_TIMEOUT + AllBackoffs(closureConfig.retryAttempts)
                /\ Finished(calls[i]) =>
                       /\ quotes[i].state = "resolved"
                       /\ quotes[i].isSimulated
                       /\ quotes[i].errorDetails = TimeoutMessage)
    /\ \A i \in QuoteSlots : Started(calls[i]) ~> Finished(calls[i])

\* C4 witness: a call that heard nothing from the endpoint has ended, after the
\* timer fired, with the timeout Quote.
C4_Witness ==
    /\ calls["q1"].pc = "threw"
    /\ calls["q1"].silent
    /\ calls["q1"].aborted
    /\ calls["q1"].t = DefaultTimeout + 1000
    /\ quotes["q1"].isSimulated
    /\ quotes["q1"].errorDetails = TimeoutMessage

\* C5: one fetchWithTimeout call issues at most N = retryAttempts attempts; after
\* failed attempt k < N it waits k x 1000 ms before attempt k+1; no wait follows
\* a successful attempt, and the final failed attempt throws without a wait.
C5_RetryPolicy ==
    \A i \in QuoteSlots :
        LET c == calls[i]
            N == closureConfig.retryAttempts
        IN  Started(c) =>
              /\ c.attempts <= N
              /\ c.attempts = c.attempt + 1
              /\ \A k \in 1..Len(c.waits) : c.waits[k] = 1000 * k
              /\ c.pc \in {"fetch", "returned", "threw"} => Len(c.waits) = c.attempts - 1
              /\ c.pc = "backoff" => (Len(c.waits) = c.attempts /\ c.attempts < N)
              /\ c.pc = "threw" => c.attempts = N

\* C5 witness: a call with three attempts has failed three times and thrown,
\* having waited 1000 ms and then 2000 ms.
C5_Witness ==
    /\ closureConfig.retryAttempts = 3
    /\ calls["q1"].pc = "threw"
    /\ calls["q1"].attempts = 3
    /\ calls["q1"].waits = <<1000, 2000>>

-----------------------------------------------------------------------------
(* Claims about the component *)

\* a fetchWithTimeout call begins in slot s in this step
CallBegins(s) ==
    /\ calls'[s] # calls[s]
    /\ calls'[s].pc = "fetch"
    /\ calls'[s].attempts = 1

\* C7: after updateApiConfig or resetApiConfig every request issued by the
\* connectivity test and by fetchLatestPrice is built from the current
\* apiConfig: its base URL, timeout, attempt count and CORS mode.
C7_RequestsUseCurrentConfig ==
    [][\A s \in Slots :
          CallBegins(s) =>
              /\ calls'[s].baseUrl = apiConfig.baseUrl
              /\ calls'[s].timeoutMs = apiConfig.timeout
              /\ calls'[s].retryAttempts = apiConfig.retryAttempts
              /\ calls'[s].mode = apiConfig.corsMode]_vars

IsBlank(text) == \A k \in 1..Len(text) : text[k] \in {" ", "\t", "\n"}
NormalizesToNothing(text) == cleanAndValidateSymbols(StringValue(text)).list = <<>>

\* C8: when the input is blank or normalizes to the empty list, analyzeShares
\* sets a user-facing error and returns before any request is issued (no
\* connectivity re-test, no quote fetch), does not set isAnalyzing, and leaves
\* the report unchanged; an analysis in progress always has symbols.
C8_InvalidInputStopsAnalysis ==
    /\ [][(AnalyzeShares /\ (IsBlank(shareList) \/ NormalizesToNothing(shareList))) =>
            /\ error' \in {EmptyInputMessage, NoValidMessage}
            /\ IsBlank(shareList) => error' = EmptyInputMessage
            /\ calls' = calls
            /\ tests' = tests
            /\ apiStatus' = apiStatus
            /\ isAnalyzing' = FALSE
            /\ analysis' = analysis]_vars
    /\ [](isAnalyzing => (run.symbols # <<>> /\ ~IsBlank(run.input)))

\* C8 witness: with a report on screen the user typed an all-invalid list and
\* pressed the button: the error is shown, the report is still there and no
\* request is in flight for an analysis.
C8_Witness ==
    /\ error = NoValidMessage
    /\ ~IsBlank(shareList)
    /\ NormalizesToNothing(shareList)
    /\ analysis.generated
    /\ ~isAnalyzing
    /\ \A i \in QuoteSlots : calls[i].pc = "idle"

\* C9: once analyzeShares has passed validation the analysis completes for
\* every combination of outcomes of the re-test and the fetches: isAnalyzing
\* returns to false with the report of that run stored, and the 'Analysis
\* failed' error is never set.
C9_AnalysisAlwaysCompletes ==
    /\ [](error # AnalysisFailedPrefix)
    /\ [][(isAnalyzing /\ ~isAnalyzing') =>
            (analysis'.generated /\ analysis'.symbols = run.symbols)]_vars
    /\ isAnalyzing ~> ~isAnalyzing

\* C9 witness: an analysis has completed with one live and one synthetic Quote
\* while the connectivity test had failed with a network error.
C9_Witness ==
    /\ ~isAnalyzing
    /\ analysis.generated
    /\ analysis.liveDataCount = 1
    /\ analysis.simulatedDataCount = 1
    /\ apiStatus = "warning"
    /\ ~isApiWorking

\* a step that advances the call in slot i without beginning or clearing it
CallAdvances(i) ==
    /\ calls'[i] # calls[i]
    /\ calls[i].pc \in {"fetch", "backoff"}
    /\ calls'[i].pc # "idle"

\* C10: the fetches of one analysis are independent: a call is aborted only by
\* its own timer, a Quote is live exactly when its own call returned a reply
\* with a price, and a step of one call (a failure or timeout included) changes
\* neither the call nor the Quote of another symbol.
C10_FetchesIndependent ==
    /\ [](\A i \in QuoteSlots :
            /\ calls[i].aborted => calls[i].t >= calls[i].timeoutMs
            /\ quotes[i].state = "resolved" =>
                  (~quotes[i].isSimulated <=>
                      (calls[i].pc = "returned" /\ calls[i].outcome = "okPrice")))
    /\ [][\A i, j \in QuoteSlots :
            (i # j /\ CallAdvances(i)) =>
                (calls'[j] = calls[j] /\ quotes'[j] = quotes[j])]_vars

\* C10 witness: of two symbols fetched together one has timed out into a
\* synthetic Quote and the other has its live Quote.
C10_Witness ==
    /\ run.pc = "fetching"
    /\ quotes["q1"].state = "resolved"
    /\ quotes["q1"].isSimulated
    /\ quotes["q1"].errorDetails = TimeoutMessage
    /\ quotes["q2"].state = "resolved"
    /\ ~quotes["q2"].isSimulated

\* some request of the quote fan-out is open (in flight, waiting or settled)
FanOutOpen == \E i \in QuoteSlots : calls[i].pc # "idle"

\* C11: when an analysis starts while the API is marked as not working, the
\* connectivity re-test runs to its end (success or failure) before the first
\* quote request of that analysis is issued: while the re-test is running no
\* quote request exists, and the fan-out begins in the step that ends it.
C11_RetestBeforeFanOut ==
    /\ []((run.pc = "retest") <=> (tests["re"] # "idle"))
    /\ [](tests["re"] # "idle" => ~FanOutOpen)
    /\ [][(AnalyzeShares /\ ~isApiWorking /\ ValidationError(shareList) = "") =>
            (run'.pc = "retest" /\ tests'["re"] = "health" /\ ~FanOutOpen')]_vars
    /\ [][\A i \in QuoteSlots :
            CallBegins(i) =>
                /\ run'.pc = "fetching"
                /\ tests'["re"] = "idle"
                /\ \/ run.pc = "retest" /\ tests["re"] # "idle"
                   \/ run.pc = "idle" /\ isApiWorking]_vars

\* C11 witness: the re-test of an analysis has failed and the two quote
\* requests of that analysis are now in flight. The test of the other slot is
\* still running, so the failure shown is the one of the re-test, and with
\* isApiWorking false no analysis starts without a re-test.
C11_Witness ==
    /\ run.pc = "fetching"
    /\ ~isApiWorking
    /\ apiStatus \in {"error", "warning"}
    /\ tests["re"] = "idle"
    /\ tests["bg"] # "idle"
    /\ calls["q1"].pc = "fetch"
    /\ calls["q2"].pc = "fetch"

\* C12: in every analysis run the symbol list handed to generateAnalysis is
\* the output of cleanAndValidateSymbols on the input the run started with,
\* also when the input box is edited while the run is in flight, and the quote
\* map handed with it has a Quote for every one of those symbols.
C12_GeneratorGetsNormalizedSymbols ==
    /\ [](run.pc # "idle" =>
            run.symbols = cleanAndValidateSymbols(StringValue(run.input)).list)
    /\ [][PromiseAllSettles =>
            /\ analysis'.symbols =
                   cleanAndValidateSymbols(StringValue(run.input)).list
            /\ DOMAIN PriceMapOf(run.symbols, quotes) = Range(analysis'.symbols)
            /\ \A share \in Range(analysis'.symbols) :
                   /\ PriceMapOf(run.symbols, quotes)[share].state = "resolved"
                   /\ PriceMapOf(run.symbols, quotes)[share].symbol = share]_vars

\* C12 witness: the fetches of a run for two symbols have all ended, and the
\* user has meanwhile replaced the input by one without any valid symbol.
C12_Witness ==
    /\ run.pc = "fetching"
    /\ Len(run.symbols) = 2
    /\ shareList # run.input
    /\ NormalizesToNothing(shareList)
    /\ \A s \in RunSlots(run.symbols) : quotes[s].state = "resolved"

-----------------------------------------------------------------------------
(* Claims about the report generator *)

HasQuote(i) == reportCall.symbols[i] \in DOMAIN reportCall.priceMap
QuoteAt(i) == reportCall.priceMap[reportCall.symbols[i]]
Positions == 1..Len(reportCall.symbols)

\* the piece at position i is the one of symbol i: built from its Quote, or
\* the data-unavailable piece that names the symbol and says WAIT
PieceOfSymbol(piece, i) ==
    IF HasQuote(i)
    THEN /\ piece.label = QuoteAt(i).symbol
         /\ piece.price # "N/A"
         /\ piece.demo = QuoteAt(i).isSimulated
    ELSE /\ piece.label = reportCall.symbols[i]
         /\ piece.price = "N/A"
         /\ piece.recommendation = "WAIT"

\* C13: the report has exactly one table row and one detail section per
\* symbol of the list, in list order; a symbol without an entry in the quote
\* map is not omitted but rendered as a WAIT / data-unavailable row and section.
C13_OneRowPerSymbol ==
    reportCall.done =>
        /\ Len(reportCall.report.rows) = Len(reportCall.symbols)
        /\ Len(reportCall.report.sections) = Len(reportCall.symbols)
        /\ \A i \in Positions :
              /\ PieceOfSymbol(reportCall.report.rows[i], i)
              /\ PieceOfSymbol(reportCall.report.sections[i], i)

\* C13 witness: a report for AAPL and MSFT where only AAPL has a Quote; MSFT
\* has its row and section, both data-unavailable.
C13_Witness ==
    /\ reportCall.done
    /\ reportCall.symbols = << <<"A","A","P","L">>, <<"M","S","F","T">> >>
    /\ DOMAIN reportCall.priceMap = { <<"A","A","P","L">> }
    /\ Len(reportCall.report.rows) = 2
    /\ reportCall.report.rows[2].label = <<"M","S","F","T">>
    /\ reportCall.report.rows[2].price = "N/A"
    /\ reportCall.report.sections[2].recommendation = "WAIT"

LivePositions == {i \in Positions : HasQuote(i) /\ ~QuoteAt(i).isSimulated}
SyntheticPositions == {i \in Positions : HasQuote(i) /\ QuoteAt(i).isSimulated}
MissingPositions == {i \in Positions : ~HasQuote(i)}

C15_DecisivePerformanceDecides ==
    reportCall.done =>
        \A i \in Positions :
            (HasQuote(i) /\ QuoteAt(i).yearPerformance.numeric) =>
                /\ QuoteAt(i).yearPerformance.hundredths > 1000 =>
                      /\ reportCall.report.rows[i].recommendation = "BUY"
                      /\ reportCall.report.sections[i].recommendation = "BUY"
                /\ QuoteAt(i).yearPerformance.hundredths < 0 - 1500 =>
                      /\ reportCall.report.rows[i].recommendation = "WAIT"
                      /\ reportCall.report.sections[i].recommendation = "WAIT"

\* C15 witness: a report with a symbol at 10.04 (BUY in table and section) and
\* one at exactly -15, where the coin gave BUY in the table and WAIT in the
\* section.
C15_Witness ==
    /\ reportCall.done
    /\ Len(reportCall.symbols) = 2
    /\ HasQuote(1) /\ HasQuote(2)
    /\ QuoteAt(1).yearPerformance = Decimal(1004)
    /\ reportCall.report.rows[1].recommendation = "BUY"
    /\ reportCall.report.sections[1].recommendation = "BUY"
    /\ QuoteAt(2).yearPerformance = Decimal(0 - 1500)
    /\ reportCall.report.rows[2].recommendation = "BUY"
    /\ reportCall.report.sections[2].recommendation = "WAIT"

-----------------------------------------------------------------------------
(* Claims about the Quote Proxy handlers *)

Sent == proxyCall.response.sent

\* C16: every response of every proxy handler, on every path, carries
\* Access-Control-Allow-Origin '*'; an OPTIONS request is answered 200 with an
\* empty body whatever its symbol, and causes no upstream request.
C16_CorsOnEveryResponse ==
    /\ Sent => proxyCall.response.allowOrigin = "*"
    /\ proxyCall.method = "OPTIONS" =>
          /\ proxyCall.upstream.requests = 0
          /\ proxyCall.pc \in {"idle", "received", "responded"}
          /\ Sent => (proxyCall.response.status = 200
                      /\ proxyCall.response.body = EmptyBody)

\* C16 witness: the first handler of [symbol].js has answered an OPTIONS
\* request without symbol: 200, no body, the header set, nothing asked upstream.
C16_Witness ==
    /\ Sent
    /\ proxyCall.handler = SymbolFirst
    /\ proxyCall.method = "OPTIONS"
    /\ ~proxyCall.symbol.truthy
    /\ proxyCall.response.status = 200
    /\ proxyCall.response.body.kind = "empty"
    /\ proxyCall.response.allowOrigin = "*"
    /\ proxyCall.upstream.requests = 0

\* C17: every proxy handler answers a request whose method is neither GET nor
\* OPTIONS with 405 and makes no upstream request for it.
C17_OtherMethodsRejected ==
    proxyCall.method \notin {"GET", "OPTIONS"} =>
        /\ proxyCall.upstream.requests = 0
        /\ Sent => proxyCall.response.status = 405

\* the symbol of the request is missing, empty or blank, not a string, or has
\* neither the shape the proxy names nor one the normalizer lets through
NotATicker(chars) ==
    /\ ~proxySymbolPattern(ToUpperCase(Trim(chars)))
    /\ ~symbolPattern(ToUpperCase(Trim(chars)))
    /\ ~marketSymbolPattern(ToUpperCase(Trim(chars)))
BadSymbol(v) ==
    \/ ~v.truthy
    \/ v.type # "string"
    \/ Trim(v.chars) = <<>>
    \/ NotATicker(v.chars)

\* C18: every proxy handler answers a GET whose symbol is missing, empty or
\* blank, not a string, or not of ticker shape with 400 and makes no upstream
\* request for it.
C18_BadSymbolRejected ==
    (proxyCall.method = "GET" /\ BadSymbol(proxyCall.symbol)) =>
        /\ proxyCall.upstream.requests = 0
        /\ Sent => proxyCall.response.status = 400

\* the upstream reported the symbol or its market data as not found
ReportsNotFound(r) ==
    \/ r.status = 404
    \/ /\ r.status = 200
       /\ r.json
       /\ (r.chart # "result" \/ ~r.meta \/ ~r.regularMarketPrice.defined)

\* C19: for a GET with an accepted symbol the flattened-schema handlers map
\* upstream not-found (HTTP 404, or a reply without chart result or price) to
\* 404, no answer within the fixed timeout to 408, an unreachable upstream to
\* 503 and anything else to 500; a GET is answered with one of 200, 400, 404,
\* 408, 503, 500.
C19_UpstreamFailuresDistinguished ==
    (Sent /\ proxyCall.method = "GET"
          /\ proxyCall.handler \in {Part001, SymbolSecond}) =>
        /\ proxyCall.response.status \in {200, 400, 404, 408, 503, 500}
        /\ proxyCall.upstream.requests = 1 =>
              /\ (proxyCall.upstream.outcome = "reply"
                    /\ ReportsNotFound(proxyCall.upstream.reply))
                    => proxyCall.response.status = 404
              /\ proxyCall.upstream.outcome = "timeout"
                    => (proxyCall.response.status = 408
                        /\ proxyCall.upstream.timeoutMs = 10000)
              /\ proxyCall.upstream.outcome = "unreachable"
                    => proxyCall.response.status = 503
              /\ (proxyCall.upstream.outcome = "reply"
                    /\ ~ReportsNotFound(proxyCall.upstream.reply)
                    /\ (proxyCall.upstream.reply.status # 200
                        \/ ~proxyCall.upstream.reply.json))
                    => proxyCall.response.status = 500

\* the upstream sent a complete chart document with a regularMarketPrice
ValidChart(r) ==
    /\ r.status = 200
    /\ r.json
    /\ r.chart = "result"
    /\ r.meta
    /\ r.indicators
    /\ r.regularMarketPrice.defined

\* C20: for a GET with an accepted symbol whose upstream reply is valid chart
\* JSON with a regularMarketPrice, the proxy answers 200 with the flat schema:
\* currentPrice is the upstream price, previousClose the upstream
\* previousClose (else chartPreviousClose), dayChange their difference when
\* both are present and non-zero and 0 otherwise, dayChangePercent is
\* dayChange / previousClose x 100 when previousClose is non-zero, else 0.
C20_FlatSchemaOnSuccess ==
    (Sent /\ proxyCall.method = "GET"
          /\ proxyCall.upstream.outcome = "reply"
          /\ ValidChart(proxyCall.upstream.reply)) =>
        LET r == proxyCall.upstream.reply
            out == proxyCall.response.body
            prev == IF Truthy(r.previousClose) THEN r.previousClose
                    ELSE r.chartPreviousClose
        IN  /\ proxyCall.response.status = 200
            /\ out.kind = "flat"
            /\ out.currentPrice = r.regularMarketPrice
            /\ out.previousClose = prev
            /\ out.dayChange.num =
                  (IF Truthy(r.regularMarketPrice) /\ Truthy(prev)
                   THEN r.regularMarketPrice.num - prev.num ELSE 0)
            /\ IF Truthy(prev)
               THEN out.dayChangePercent.num * prev.num = out.dayChange.num * 100
               ELSE out.dayChangePercent.num = 0

-----------------------------------------------------------------------------
(* Claims about the Health Check *)

HealthGetAnswered ==
    /\ proxyCall.handler = Health
    /\ proxyCall.method = "GET"
    /\ Sent

\* C21: every response to a GET /api/health has status 200 and body status
\* 'healthy', whether the probe answers OK, answers with an error status or
\* throws; only yahooFinanceAPI differs between these cases ('connected'
\* exactly when the probe reply was OK), apart from the optional error text.
C21_HealthAlwaysHealthy ==
    HealthGetAnswered =>
        /\ proxyCall.response.status = 200
        /\ proxyCall.response.body.status = "healthy"
        /\ [proxyCall.response.body EXCEPT !.yahooFinanceAPI = "any", !.error = "any"]
              = HealthyBody("any", "any")
        /\ proxyCall.response.body.yahooFinanceAPI \in {"connected", "error"}
        /\ proxyCall.response.body.yahooFinanceAPI = "connected" <=>
              (proxyCall.upstream.outcome = "reply"
               /\ proxyCall.upstream.reply.status = 200)
        /\ proxyCall.response.body.error # "none" =>
              proxyCall.upstream.outcome = "unreachable"

\* C21 witness: the probe was answered with an error status and the health
\* check still says 200 / healthy, with yahooFinanceAPI 'error'.
C21_Witness ==
    /\ HealthGetAnswered
    /\ proxyCall.upstream.outcome = "reply"
    /\ proxyCall.upstream.reply.status = 500
    /\ proxyCall.response.status = 200
    /\ proxyCall.response.body.status = "healthy"
    /\ proxyCall.response.body.yahooFinanceAPI = "error"

\* C24: every GET /api/health request eventually receives a response, for
\* every behaviour of the upstream probe, no reply at all included.
C24_HealthAlwaysAnswers ==
    (proxyCall.handler = Health /\ proxyCall.method = "GET"
        /\ proxyCall.pc = "received") ~> Sent

-----------------------------------------------------------------------------
(* Claims about market-qualified symbols *)

\* the input hint of the component: JSE:T is T.JO and LON:T is T.L upstream
MarketOf(chars) == SubSeq(chars, 1, (CHOOSE k \in DOMAIN chars : chars[k] = ":") - 1)
TickerOf(chars) ==
    SubSeq(chars, (CHOOSE k \in DOMAIN chars : chars[k] = ":") + 1, Len(chars))
SuffixForm(chars) ==
    IF MarketOf(chars) = <<"J","S","E">> THEN TickerOf(chars) \o <<".","J","O">>
    ELSE IF MarketOf(chars) = <<"L","O","N">> THEN TickerOf(chars) \o <<".","L">>
    ELSE chars

MarketQualified(v) ==
    /\ v.type = "string"
    /\ marketSymbolPattern(v.chars)
    /\ CleanPiece(v.chars) = v.chars

\* C22: a market-qualified symbol that the normalizer accepts is accepted by
\* every proxy handler and requested upstream in suffix form (JSE:T as T.JO,
\* LON:T as T.L): it is neither answered 400 nor forwarded with its prefix.
C22_MarketSymbolTranslated ==
    (proxyCall.handler \in Handlers /\ proxyCall.method = "GET"
        /\ MarketQualified(proxyCall.symbol)) =>
        /\ Sent => proxyCall.response.status # 400
        /\ proxyCall.upstream.requests > 0 =>
              proxyCall.upstream.symbol = SuffixForm(proxyCall.symbol.chars)

-----------------------------------------------------------------------------
(* Claims about the recommendation of one report *)

\* C23: each symbol gets one recommendation per report: for every symbol with
\* a quote the BUY/WAIT value of its table row equals the BUY/WAIT value of its
\* detail section, for every year performance, those from -15 to 10 included.
C23_OneRecommendationPerSymbol ==
    reportCall.done =>
        \A i \in Positions :
            HasQuote(i) =>
                reportCall.report.rows[i].recommendation
                    = reportCall.report.sections[i].recommendation

-----------------------------------------------------------------------------
(* Claims about the timer of fetchWithTimeout *)

\* the timer armed at line 47 has fired: timeoutMs have passed since the call began
TimerFired(c) == c.pc # "idle" /\ c.t >= closureConfig.timeout

\* an attempt issued after the timer fired is rejected in the same instant
AbortsAtOnce(i) ==
    (TimerFired(calls[i]) /\ calls[i].pc = "fetch") =>
        /\ calls'[i].pc \in {"backoff", "threw"}
        /\ calls'[i].t = calls[i].t

\* C25: one controller and one timer, started once, cover all attempts and the
\* waits between them: once the timer has fired every later attempt fails at
\* once with an abort, no attempt returns a response after the timeout, and the
\* call ends with the 'Request timeout' error, also when an earlier attempt
\* failed with a network error.
C25_OneTimerCoversAllAttempts ==
    /\ [](\A i \in QuoteSlots :
            /\ calls[i].pc = "returned" => calls[i].t < closureConfig.timeout
            /\ (calls[i].pc = "threw" /\ TimerFired(calls[i])) =>
                  calls[i].outcome = TimeoutMessage)
    /\ [][\A i \in QuoteSlots : AbortsAtOnce(i)]_vars
    /\ \A i \in QuoteSlots :
          TimerFired(calls[i]) ~>
              (calls[i].pc = "threw" /\ calls[i].outcome = TimeoutMessage)

\* C25 witness: the first attempt failed with a network error, the timer fired
\* during the wait, the second attempt was aborted and the call ended with the
\* timeout message.
C25_Witness ==
    /\ calls["q1"].pc = "threw"
    /\ calls["q1"].outcome = TimeoutMessage
    /\ ~calls["q1"].silent
    /\ calls["q1"].attempts = 2
    /\ calls["q1"].aborted
    /\ calls["q1"].t > closureConfig.timeout

-----------------------------------------------------------------------------
(* Claims about the connectivity state *)

\* C26: in every reachable state, also when connectivity tests overlap and
\* finish in any order, apiStatus 'success' implies isApiWorking and apiStatus
\* 'error' or 'warning' implies ~isApiWorking (the two updates made when a test
\* finishes are one step).
C26_StatusAgreesWithWorking ==
    /\ apiStatus = "success" => isApiWorking
    /\ apiStatus \in {"error", "warning"} => ~isApiWorking

\* C26 witness: the re-test of an analysis ended with a success while another
\* test, begun before it ended, is still running.
C26_Witness ==
    /\ apiStatus = "success"
    /\ isApiWorking
    /\ run.pc = "fetching"
    /\ tests["bg"] # "idle"
    /\ tests["re"] = "idle"

\* C26 second case: a test failed while the re-test of an analysis is running
C26_WitnessFailure ==
    /\ apiStatus \in {"error", "warning"}
    /\ ~isApiWorking
    /\ tests["re"] # "idle"

====
